---- MODULE Spec2Model ----
(***************************************************************************)
(* Model of the callback registry of src/src/lib.rs: Handle (an Rc to a    *)
(* RefCell<bool> liveness cell, Clone, Drop writes false), Callback (the   *)
(* cell plus a boxed FnMut closure) and CallbackManager (a Vec<Callback>   *)
(* with add and run_all).                                                  *)
(*                                                                         *)
(* The heap is modelled by two sequences that only grow: `cells` holds the *)
(* value of every RefCell<bool> ever allocated by Callback::wrap, and      *)
(* `closures` the state of every boxed closure.  A closure is described by *)
(* what it does when called (`kind`) and by the Handle it owns as captured *)
(* state (`cap`, a cell index, 0 for none): closures are 'static FnMut     *)
(* values that own their captures, so destroying a closure destroys the    *)
(* Handle it owns and runs Handle::drop.                                   *)
(***************************************************************************)
EXTENDS Integers, Sequences, FiniteSets, TLC

\* ------------------------------------------------------------------ bounds
MaxCallbacks == 3
MaxClones == 1
MaxSpecial == 1
MaxArg == 1

\* What a closure does when it is called:
\*   "plain"   only records the call (the tests' counter closures),
\*   "release" has a slot for a Handle as captured state and also destroys
\*             the Handle in it, if there is one,
\*   "panic"   panics.
Kinds == {"plain", "release", "panic"}

ArgValues == 1..MaxArg

VARIABLES
  callbacks,   \* CallbackManager.callbacks: Seq of [alive: cell, closure: index]
  destroyed,   \* the CallbackManager has been dropped
  cells,       \* heap of RefCell<bool>: cells[c] is the value of cell c
  closures,    \* heap of closures: [kind, cap]; kind "dropped" once destroyed
  held,        \* held[c]: number of Handle values for cell c owned by host code
  op,          \* the operation that produced this state ("handle": one on a Handle)
  log,         \* calls made by that operation: Seq of <<closure, argument>>
  panicked     \* that operation unwound with a panic

vars == <<callbacks, destroyed, cells, closures, held, op, log, panicked>>

\* ------------------------------------------------------------- Handle
\* impl Drop for Handle: *RefCell::borrow_mut(&self.0) = false.
DropHandleToggle(cs, c) == [cs EXCEPT ![c] = ~cs[c]]

DropHandle(cs, c) == [cs EXCEPT ![c] = FALSE]

\* #[derive(Clone)] on Handle: the clone holds the same Rc, the cell is not written.
CloneHandleWrites(cs, c) == [cs EXCEPT ![c] = FALSE]

CloneHandle(cs, c) == cs

\* ------------------------------------------------------------- Callback
\* Callback::wrap: a fresh cell holding true and the boxed closure.
wrapShared(cs, cl, kind) ==
  LET c == IF Len(cs) > 0 THEN Len(cs) ELSE 1 IN
  [callback |-> [alive |-> c, closure |-> Len(cl) + 1],
   cells    |-> IF Len(cs) > 0 THEN cs ELSE <<TRUE>>,
   closures |-> Append(cl, [kind |-> kind, cap |-> 0])]

wrap(cs, cl, kind) ==
  [callback |-> [alive |-> Len(cs) + 1, closure |-> Len(cl) + 1],
   cells    |-> Append(cs, TRUE),
   closures |-> Append(cl, [kind |-> kind, cap |-> 0])]

\* Callback::get_handle: a Handle on the callback's own cell.
get_handle(cb) == cb.alive

\* Callback::is_alive: the value of the cell.
is_aliveAlways(cb, cs) == TRUE

is_aliveNever(cb, cs) == FALSE

is_alive(cb, cs) == cs[cb.alive]

\* Dropping a Callback (drop glue of the struct): the Rc field is released,
\* which does not write the cell, and the boxed closure is destroyed together
\* with the Handle it owns, whose Drop writes false to that Handle's cell.
DropCallback(cb, cs, cl) ==
  LET k == cb.closure IN
  [cells    |-> IF cl[k].cap # 0 THEN DropHandle(cs, cl[k].cap) ELSE cs,
   closures |-> [cl EXCEPT ![k] = [kind |-> "dropped", cap |-> 0]]]

\* args.clone(): Args: Clone, the copy equals the original.
CloneArgsDefault(a) == 0

CloneArgs(a) == a

\* Callback::call: closure.call_mut(args).  The closure records the call, then
\* acts by its kind.
callNoUnwind(cb, a, cs, cl) ==
  LET k == cb.closure IN
  [called   |-> <<k, a>>,
   panicked |-> FALSE,
   cells    |-> IF cl[k].kind = "release" /\ cl[k].cap # 0
                THEN DropHandle(cs, cl[k].cap) ELSE cs,
   closures |-> IF cl[k].kind = "release" THEN [cl EXCEPT ![k].cap = 0] ELSE cl]

call(cb, a, cs, cl) ==
  LET k == cb.closure IN
  [called   |-> <<k, a>>,
   panicked |-> cl[k].kind = "panic",
   cells    |-> IF cl[k].kind = "release" /\ cl[k].cap # 0
                THEN DropHandle(cs, cl[k].cap) ELSE cs,
   closures |-> IF cl[k].kind = "release" THEN [cl EXCEPT ![k].cap = 0] ELSE cl]

\* ------------------------------------------------------------- Vec
\* Vec::push.
pushFront(v, x) == <<x>> \o v

push(v, x) == Append(v, x)

\* The kept part of Vec::retain: a kept element goes behind those kept so far.
keepFront(kept, x) == <<x>> \o kept

keep(kept, x) == Append(kept, x)

\* self.callbacks.retain(Callback::is_alive): one pass in order; an element for
\* which the predicate is false is dropped in place before the next element is
\* tested.
RECURSIVE retain(_, _, _, _, _)
retain(v, i, kept, cs, cl) ==
  IF i > Len(v) THEN [callbacks |-> kept, cells |-> cs, closures |-> cl]
  ELSE IF is_alive(v[i], cs)
       THEN retain(v, i + 1, keep(kept, v[i]), cs, cl)
       ELSE LET d == DropCallback(v[i], cs, cl)
            IN retain(v, i + 1, kept, d.cells, d.closures)

\* for f in &mut self.callbacks { f.call(args.clone()); }: in order; a panic
\* unwinds out of the loop.
RECURSIVE invoke(_, _, _, _, _, _)
invoke(v, i, args, cs, cl, lg) ==
  IF i > Len(v) THEN [cells |-> cs, closures |-> cl, log |-> lg, panicked |-> FALSE]
  ELSE LET r == call(v[i], CloneArgs(args), cs, cl) IN
       IF r.panicked
       THEN [cells |-> r.cells, closures |-> r.closures,
             log |-> Append(lg, r.called), panicked |-> TRUE]
       ELSE invoke(v, i + 1, args, r.cells, r.closures, Append(lg, r.called))

\* Drop of the Vec<Callback>: the elements are dropped in order.
RECURSIVE DropVec(_, _, _, _)
DropVec(v, i, cs, cl) ==
  IF i > Len(v) THEN [cells |-> cs, closures |-> cl]
  ELSE LET d == DropCallback(v[i], cs, cl)
       IN DropVec(v, i + 1, d.cells, d.closures)

\* ------------------------------------------------------------- helpers
Range(s) == {s[i] : i \in 1..Len(s)}

\* Closures owning a Handle of cell c.
Owners(c) == {k \in 1..Len(closures) : closures[k].cap = c}

\* Number of Handle values of cell c in existence.
HandleCount(c) == held[c] + Cardinality(Owners(c))

RECURSIVE Sum(_)
Sum(s) == IF s = <<>> THEN 0 ELSE Head(s) + Sum(Tail(s))

\* Number of Handle values in existence, and of closures owning one.
Handles == Sum(held) + Cardinality({k \in 1..Len(closures) : closures[k].cap # 0})

\* Number of closures in existence that are not plain.
Special == Cardinality({k \in 1..Len(closures) : closures[k].kind \in {"release", "panic"}})

\* ------------------------------------------------------------- state machine
\* CallbackManager::default(): an empty Vec.
Init ==
  /\ callbacks = <<>>
  /\ destroyed = FALSE
  /\ cells = <<>>
  /\ closures = <<>>
  /\ held = <<>>
  /\ op = "default"
  /\ log = <<>>
  /\ panicked = FALSE

\* CallbackManager::add(callback): wrap, get_handle, push; the Handle is
\* returned to the host.
add(kind) ==
  /\ ~destroyed
  /\ Len(cells) < MaxCallbacks
  /\ kind # "plain" => Special < MaxSpecial
  /\ LET w == wrap(cells, closures, kind)
         h == get_handle(w.callback)
         cs == w.cells
     IN /\ callbacks' = push(callbacks, w.callback)
        /\ cells' = cs
        /\ closures' = w.closures
        /\ held' = [c \in 1..Len(cs) |->
                      (IF c \in DOMAIN held THEN held[c] ELSE 0) + (IF c = h THEN 1 ELSE 0)]
  /\ op' = "add"
  /\ log' = <<>>
  /\ panicked' = FALSE
  /\ UNCHANGED destroyed

\* CallbackManager::run_all(args): retain, then the call loop.
run_allCallThenRetain(args) ==
  /\ ~destroyed
  /\ LET r == invoke(callbacks, 1, args, cells, closures, <<>>)
         p == retain(callbacks, 1, <<>>, r.cells, r.closures)
     IN /\ callbacks' = p.callbacks
        /\ cells' = p.cells
        /\ closures' = p.closures
        /\ log' = r.log
        /\ panicked' = r.panicked
  /\ op' = "run_all"
  /\ UNCHANGED <<destroyed, held>>

run_allDrain(args) ==
  /\ ~destroyed
  /\ LET p == retain(callbacks, 1, <<>>, cells, closures)
         r == invoke(p.callbacks, 1, args, p.cells, p.closures, <<>>)
         d == DropVec(p.callbacks, 1, r.cells, r.closures)
     IN /\ callbacks' = <<>>
        /\ cells' = d.cells
        /\ closures' = d.closures
        /\ log' = r.log
        /\ panicked' = r.panicked
  /\ op' = "run_all"
  /\ UNCHANGED <<destroyed, held>>

run_all(args) ==
  /\ ~destroyed
  /\ LET p == retain(callbacks, 1, <<>>, cells, closures)
         r == invoke(p.callbacks, 1, args, p.cells, p.closures, <<>>)
     IN /\ callbacks' = p.callbacks
        /\ cells' = r.cells
        /\ closures' = r.closures
        /\ log' = r.log
        /\ panicked' = r.panicked
  /\ op' = "run_all"
  /\ UNCHANGED <<destroyed, held>>

\* The host clones a Handle it owns.
HandleClone(c) ==
  /\ held[c] > 0
  /\ Handles < Len(cells) + MaxClones
  /\ held' = [held EXCEPT ![c] = @ + 1]
  /\ cells' = CloneHandle(cells, c)
  /\ op' = "handle"
  /\ log' = <<>>
  /\ panicked' = FALSE
  /\ UNCHANGED <<callbacks, destroyed, closures>>

\* The host drops a Handle it owns (explicitly or by scope end).
HandleDropEager(c) ==
  /\ held[c] > 0
  /\ held' = [held EXCEPT ![c] = @ - 1]
  /\ cells' = DropHandle(cells, c)
  /\ callbacks' = SelectSeq(callbacks, LAMBDA cb : cb.alive # c)
  /\ op' = "handle"
  /\ log' = <<>>
  /\ panicked' = FALSE
  /\ UNCHANGED <<destroyed, closures>>

HandleDrop(c) ==
  /\ held[c] > 0
  /\ held' = [held EXCEPT ![c] = @ - 1]
  /\ cells' = DropHandle(cells, c)
  /\ op' = "handle"
  /\ log' = <<>>
  /\ panicked' = FALSE
  /\ UNCHANGED <<callbacks, destroyed, closures>>

\* The host moves a Handle it owns into the empty slot of a closure that still
\* exists (a closure is a 'static FnMut with arbitrary captured state; the
\* Handle moves, nothing is dropped).
Capture(c, k) ==
  /\ held[c] > 0
  /\ closures[k].kind = "release"
  /\ closures[k].cap = 0
  /\ held' = [held EXCEPT ![c] = @ - 1]
  /\ closures' = [closures EXCEPT ![k].cap = c]
  /\ op' = "handle"
  /\ log' = <<>>
  /\ panicked' = FALSE
  /\ UNCHANGED <<callbacks, destroyed, cells>>

\* The CallbackManager is dropped: its Vec drops every Callback, none is called.
DestroyFlush ==
  /\ ~destroyed
  /\ LET r == invoke(callbacks, 1, 0, cells, closures, <<>>)
         d == DropVec(callbacks, 1, r.cells, r.closures)
     IN /\ cells' = d.cells
        /\ closures' = d.closures
        /\ log' = r.log
  /\ callbacks' = <<>>
  /\ destroyed' = TRUE
  /\ op' = "destroy"
  /\ panicked' = FALSE
  /\ UNCHANGED held

Destroy ==
  /\ ~destroyed
  /\ LET d == DropVec(callbacks, 1, cells, closures)
     IN /\ cells' = d.cells
        /\ closures' = d.closures
  /\ callbacks' = <<>>
  /\ destroyed' = TRUE
  /\ op' = "destroy"
  /\ log' = <<>>
  /\ panicked' = FALSE
  /\ UNCHANGED held

Next ==
  \/ \E kind \in Kinds : add(kind)
  \/ \E args \in ArgValues : run_all(args)
  \/ \E c \in 1..Len(cells) : HandleClone(c)
  \/ \E c \in 1..Len(cells) : HandleDrop(c)
  \/ \E c \in 1..Len(cells), k \in 1..Len(closures) : Capture(c, k)
  \/ Destroy

Spec == Init /\ [][Next]_vars

\* ------------------------------------------------------------- properties
\* The closures of a sequence of callbacks, and those of a log, in order.
ClosuresOf(v) == [i \in 1..Len(v) |-> v[i].closure]

Logged(lg) == [i \in 1..Len(lg) |-> lg[i][1]]

Increasing(s) == \A i, j \in 1..Len(s) : i < j => s[i] < s[j]

\* The entries of the collection that the step removes.
Removed(i) == callbacks[i] \notin Range(callbacks')

\* C1 (stated as the claim has it): while any Handle of an entry exists, held
\* by the host or owned by a closure, the entry's liveness is true; dropping
\* one of several clones does not make the entry dead.
C1_Isolation ==
  \A c \in 1..Len(cells) : HandleCount(c) > 0 => cells[c]

\* C2: a run_all(args) that starts with every entry of the collection alive
\* (no Handle dropped) and returns calls every closure of the collection
\* exactly once, in order, each with a value equal to args.
C2_Invocation ==
  [][\A args \in ArgValues :
       (/\ run_all(args)
        /\ \A i \in 1..Len(callbacks) : cells[callbacks[i].alive]
        /\ ~panicked')
       => log' = [i \in 1..Len(callbacks) |-> <<callbacks[i].closure, args>>]]_vars

C2_Witness ==
  /\ op = "run_all" /\ ~panicked
  /\ Len(cells) = 3 /\ Len(callbacks) = 3 /\ Len(log) = 3
  /\ \A c \in 1..Len(cells) : cells[c]

C4_Order ==
  /\ Increasing(ClosuresOf(callbacks))
  /\ Increasing(Logged(log))
  /\ op = "run_all" =>
       /\ Len(log) <= Len(callbacks)
       /\ Logged(log) = SubSeq(ClosuresOf(callbacks), 1, Len(log))
       /\ ~panicked => Len(log) = Len(callbacks)

C4_Witness ==
  /\ op = "run_all"
  /\ Len(cells) = 3 /\ ~cells[1]
  /\ Logged(log) = <<2, 3>>

C6_Monotonic ==
  [][/\ Len(cells') >= Len(cells)
     /\ \A c \in 1..Len(cells) : ~cells[c] => ~cells'[c]
     /\ \A c \in 1..Len(cells') : c > Len(cells) => cells'[c]]_vars

C6_Witness ==
  \E c \in 1..Len(cells) : ~cells[c] /\ held[c] > 0 /\ op = "handle"

\* C7: an operation on a Handle (drop, clone, move into a closure) leaves the
\* collection and every closure as they are and writes at most one cell; the
\* collection loses entries only in a run_all step (or when the manager itself
\* is dropped).
C7_Deferred ==
  [][/\ op' = "handle" =>
          /\ callbacks' = callbacks
          /\ \A k \in 1..Len(closures) : closures'[k].kind = closures[k].kind
          /\ Len(cells') = Len(cells)
          /\ Cardinality({c \in 1..Len(cells) : cells'[c] # cells[c]}) <= 1
     /\ (\E i \in 1..Len(callbacks) : Removed(i)) =>
          op' = "run_all" \/ (op' = "destroy" /\ destroyed')]_vars

C7_Witness ==
  /\ op = "handle" /\ ~destroyed
  /\ \E i \in 1..Len(callbacks) :
       ~cells[callbacks[i].alive] /\ HandleCount(callbacks[i].alive) = 0

\* C8: add appends one entry and changes nothing else of the collection, the
\* cells or the Handles; it calls no closure; the new entry is alive, on a
\* cell no earlier entry ever had, and the host gets exactly one Handle of it.
C8_Add ==
  [][op' = "add" =>
       LET n == Len(callbacks') IN
       /\ n = Len(callbacks) + 1
       /\ SubSeq(callbacks', 1, n - 1) = callbacks
       /\ log' = <<>> /\ ~panicked'
       /\ Len(cells') = Len(cells) + 1
       /\ \A c \in 1..Len(cells) : cells'[c] = cells[c] /\ held'[c] = held[c]
       /\ \A k \in 1..Len(closures) : closures'[k] = closures[k]
       /\ callbacks'[n].alive = Len(cells')
       /\ callbacks'[n].closure = Len(closures')
       /\ cells'[callbacks'[n].alive]
       /\ held'[callbacks'[n].alive] = 1]_vars

C8_Witness ==
  /\ op = "add"
  /\ Len(callbacks) = 2 /\ Len(cells) = 3
  /\ ~cells[callbacks[1].alive]

\* C9: a run_all unwinds exactly when an entry it keeps has a panicking
\* closure; then the calls made are those of the kept entries up to and
\* including the first such entry, once each and in order, none behind it is
\* called, and the entries dead at the start are gone all the same.
Panicking(v, cl) == {i \in 1..Len(v) : cl[v[i].closure].kind = "panic"}

First(S) == CHOOSE i \in S : \A j \in S : i <= j

C9_FailFast ==
  [][op' = "run_all" =>
       LET P == Panicking(callbacks', closures') IN
       /\ panicked' <=> P # {}
       /\ P # {} => Logged(log') = SubSeq(ClosuresOf(callbacks'), 1, First(P))
       /\ \A i \in 1..Len(callbacks) : ~cells[callbacks[i].alive] => Removed(i)]_vars

C9_Witness ==
  /\ op = "run_all" /\ panicked
  /\ Len(cells) = 3 /\ ~cells[1]
  /\ ClosuresOf(callbacks) = <<2, 3>>
  /\ closures[2].kind = "panic"
  /\ Logged(log) = <<2>>

\* C10 (stated as the claim has it): run_all never removes an entry that is
\* alive when it starts.
C10_AliveAtStartStays ==
  [][op' = "run_all" =>
       \A i \in 1..Len(callbacks) : cells[callbacks[i].alive] => ~Removed(i)]_vars

\* C10 (amended): an entry leaves the collection only in a run_all step (or
\* with the manager) and only if it is dead when the prune pass tests it:
\* dead at the start, or alive at the start and killed during the pass by the
\* destruction of an earlier pruned entry's closure that owned its Handle.
\* Every entry dead at the start is removed.  A removed entry never comes
\* back and its closure is never called again.
C10_Lifecycle ==
  [][/\ \A i \in 1..Len(callbacks) :
          Removed(i) =>
             /\ op' = "run_all" \/ destroyed'
             /\ op' = "run_all" =>
                  /\ ~cells'[callbacks[i].alive]
                  /\ \/ ~cells[callbacks[i].alive]
                     \/ \E j \in 1..(i - 1) :
                          /\ Removed(j)
                          /\ closures[callbacks[j].closure].cap = callbacks[i].alive
     /\ op' = "run_all" =>
          \A i \in 1..Len(callbacks) : ~cells[callbacks[i].alive] => Removed(i)
     /\ \A k \in 1..Len(closures) :
          k \notin Range(ClosuresOf(callbacks)) =>
             /\ k \notin Range(ClosuresOf(callbacks'))
             /\ k \notin Range(Logged(log'))]_vars

C10_Witness ==
  /\ op = "run_all"
  /\ Len(cells) = 3
  /\ ClosuresOf(callbacks) = <<2>>
  /\ closures[1].kind = "dropped" /\ closures[3].kind = "dropped"
  /\ held[3] = 0 /\ held[1] = 0

\* C11: dropping a Handle the host owns of a cell that is already dead changes
\* nothing but the number of Handles: that cell stays dead, every other cell,
\* the collection and the closures are as before.
C11_IdempotentDrop ==
  [][\A c \in 1..Len(cells) :
       (/\ op' = "handle"
        /\ held'[c] = held[c] - 1
        /\ closures' = closures
        /\ ~cells[c])
       => /\ cells' = cells
          /\ callbacks' = callbacks
          /\ destroyed' = destroyed
          /\ \A d \in 1..Len(cells) : d # c => held'[d] = held[d]]_vars

C11_Witness ==
  /\ op = "handle"
  /\ Len(callbacks) = 2 /\ Len(cells) = 2
  /\ cells = <<FALSE, TRUE>>
  /\ held = <<0, 1>>

\* C12: a run_all that returns has called every entry it kept exactly once
\* and in order, whether or not a called closure dropped the Handle of one of
\* them; an entry alive at the start whose Handle no pruned closure owned is
\* still in the collection afterwards, also when it died during the calls; it
\* goes with the run_all that finds it dead at its start.
C12_MutationInPass ==
  [][op' = "run_all" =>
       /\ ~panicked' => Logged(log') = ClosuresOf(callbacks')
       /\ \A i \in 1..Len(callbacks) :
            (/\ cells[callbacks[i].alive]
             /\ ~\E j \in 1..(i - 1) :
                   /\ Removed(j)
                   /\ closures[callbacks[j].closure].cap = callbacks[i].alive)
            => ~Removed(i)
       /\ \A i \in 1..Len(callbacks) : ~cells[callbacks[i].alive] => Removed(i)]_vars

C12_Witness ==
  /\ op = "run_all" /\ ~panicked
  /\ Len(cells) = 3
  /\ closures[1].kind = "release" /\ closures[1].cap = 0
  /\ cells = <<TRUE, FALSE, TRUE>>
  /\ held = <<1, 0, 1>>
  /\ ClosuresOf(callbacks) = <<1, 2, 3>>
  /\ Logged(log) = <<1, 2, 3>>

\* C13: dropping the manager calls no closure and destroys every closure of
\* the collection; no operation but run_all calls a closure; after the
\* manager is gone an operation on a Handle still works and writes at most
\* the cell of that Handle.
C13_Destruction ==
  [][/\ op' = "destroy" =>
          /\ log' = <<>>
          /\ callbacks' = <<>>
          /\ \A i \in 1..Len(callbacks) :
               closures'[callbacks[i].closure].kind = "dropped"
     /\ op' # "run_all" => log' = <<>>
     /\ (destroyed /\ op' = "handle") =>
          /\ destroyed' /\ callbacks' = callbacks /\ closures' = closures
          /\ \E c \in 1..Len(cells) :
               /\ held'[c] # held[c]
               /\ \A d \in 1..Len(cells) :
                    d # c => cells'[d] = cells[d] /\ held'[d] = held[d]]_vars

C13_Witness ==
  /\ destroyed /\ op = "handle"
  /\ Len(cells) = 3
  /\ \E c \in 1..Len(cells) : held[c] = 2 /\ cells[c]
  /\ \E c \in 1..Len(cells) : held[c] = 0 /\ ~cells[c]

\* C14: a cell goes from alive to dead only in a step that destroys a Handle
\* of that cell (dropped by the host, or destroyed by or with the closure that
\* owns it); add and the cloning of a Handle write no cell, and the host's
\* drop of a Handle writes no cell but that Handle's.
C14_SoleTrigger ==
  [][/\ \A c \in 1..Len(cells) :
          (cells[c] /\ ~cells'[c]) => HandleCount(c)' < HandleCount(c)
     /\ op' = "add" => \A c \in 1..Len(cells) : cells'[c] = cells[c]
     /\ op' = "handle" =>
          \A c \in 1..Len(cells) :
             cells'[c] # cells[c] => held'[c] < held[c]
     /\ op' \in {"run_all", "destroy"} =>
          \A c \in 1..Len(cells) :
             cells'[c] # cells[c] =>
                \E k \in Owners(c) : closures'[k].cap = 0]_vars

C14_Witness ==
  /\ op = "destroy"
  /\ Len(cells) = 3
  /\ \E c \in 1..Len(cells) : ~cells[c] /\ held[c] = 0
  /\ \E c \in 1..Len(cells) : cells[c] /\ held[c] = 2

\* C15 (stated as the claim has it): every entry alive when a run_all that
\* returns starts is called exactly once by it.
C15_AliveAtStartCalled ==
  [][(op' = "run_all" /\ ~panicked') =>
       \A i \in 1..Len(callbacks) :
          cells[callbacks[i].alive] =>
             Cardinality({n \in 1..Len(log') : log'[n][1] = callbacks[i].closure}) = 1]_vars

\* C15 (amended): run_all does not consume entries: every closure it calls
\* is called once and its entry is still in the collection afterwards; a
\* run_all that returns calls exactly once every entry that is alive when the
\* prune pass tests it (alive at the start, its Handle owned by no closure
\* pruned before it); no closure is called more than once by one run_all, and
\* none by any other operation, the add that registers it included.
C15_Repeated ==
  [][/\ op' # "run_all" => log' = <<>>
     /\ op' = "run_all" =>
          /\ \A n, m \in 1..Len(log') : log'[n][1] = log'[m][1] => n = m
          /\ Range(Logged(log')) \subseteq Range(ClosuresOf(callbacks'))
          /\ Range(Logged(log')) \subseteq Range(ClosuresOf(callbacks))
          /\ ~panicked' =>
               \A i \in 1..Len(callbacks) :
                  (/\ cells[callbacks[i].alive]
                   /\ ~\E j \in 1..(i - 1) :
                         /\ Removed(j)
                         /\ closures[callbacks[j].closure].cap = callbacks[i].alive)
                  => Cardinality({n \in 1..Len(log') :
                                    log'[n][1] = callbacks[i].closure}) = 1]_vars

C15_Witness ==
  /\ op = "run_all" /\ ~panicked
  /\ Len(cells) = 2
  /\ cells = <<TRUE, TRUE>>
  /\ held = <<2, 1>>
  /\ Logged(log) = <<1, 2>>
  /\ ClosuresOf(callbacks) = <<1, 2>>

====
